---- MODULE Spec2Model ----
(***************************************************************************)
(* Model of kytos/core/interface.py: the TAG value type, the tag pool of   *)
(* an Interface (available_tags with use_tag, is_tag_available,            *)
(* get_next_available_tag, make_tag_available) and the speed resolution.   *)
(***************************************************************************)
EXTENDS Integers, Sequences, FiniteSets, TLC

(***************************************************************************)
(* Bounds.                                                                 *)
(***************************************************************************)
\* The pool is seeded by range(1, 4096); the model seeds range(1, MaxVlan + 1).
MaxVlan == 2
\* Number of calls made on one Interface in a serial run.
MaxCalls == 5

(***************************************************************************)
(* class TAGType(IntEnum)                                                  *)
(***************************************************************************)
VLAN == 1
VLAN_QINQ == 2
MPLS == 3

(***************************************************************************)
(* class TAG                                                               *)
(***************************************************************************)
TAG(tag_type, value) == [tag_type |-> tag_type, value |-> value]

\* TAG.__eq__
TAG_eq(self, other) == self.tag_type = other.tag_type /\ self.value = other.value

(***************************************************************************)
(* Python values returned to the caller.                                   *)
(***************************************************************************)
PyBool(b) == [type |-> "bool", val |-> b]
PyNone == [type |-> "NoneType"]
PyTag(t) == [type |-> "TAG", val |-> t]
PyRaise(e) == [type |-> "raise", val |-> e]

(***************************************************************************)
(* Python list primitives used by the pool.                                *)
(***************************************************************************)
\* Index of the first entry equal to x, 0 when there is none.
list_index(l, x) ==
    IF \E i \in 1..Len(l) : TAG_eq(l[i], x)
    THEN CHOOSE i \in 1..Len(l) :
            TAG_eq(l[i], x) /\ \A j \in 1..(i - 1) : ~TAG_eq(l[j], x)
    ELSE 0

list_delete(l, i) == SubSeq(l, 1, i - 1) \o SubSeq(l, i + 1, Len(l))

\* x in l
list_contains(l, x) == \E i \in 1..Len(l) : TAG_eq(x, l[i])

\* l.remove(x): deletes the first entry equal to x (ValueError when none is).
list_remove(l, x) == list_delete(l, list_index(l, x))

(***************************************************************************)
(* State of one Interface and of its callers.                              *)
(***************************************************************************)
VARIABLES
    available_tags,   \* Interface.available_tags, a Python list of TAG
    history,          \* the calls completed so far: <<[op, arg, ret], ...>>
    pools,            \* available_tags as __init__ left it and after each call
    frames,           \* per thread: the statement it is at and its locals
    overlapped,       \* some statement ran while another thread was in a call
    features,         \* Interface.features: None or a bitmask
    _custom_speed,    \* Interface._custom_speed: None or a number
    switch,           \* what the Interface reads of its switch
    last,             \* the last method called outside the pool, and its result
    last_set,         \* the speed given last, to __init__ or set_custom_speed
    overridden,       \* a custom speed other than None has been in force
    endpoints,        \* Interface.endpoints, a list of (endpoint, time)
    clock             \* what now() returns

poolvars == <<available_tags, history, pools>>
threadvars == <<frames, overlapped>>
speedvars == <<features, _custom_speed, switch, last, last_set, overridden>>
endpointvars == <<endpoints, clock>>
vars == <<available_tags, history, pools, frames, overlapped,
          features, _custom_speed, switch, last, last_set, overridden,
          endpoints, clock>>

\* The tags callers pass in: every seeded VLAN tag, and one tag that is never
\* seeded and shares its value with a seeded tag but not its type.
SeededTags == {TAG(VLAN, i) : i \in 1..MaxVlan}
ForeignTags == {TAG(VLAN_QINQ, 1)}
Tags == SeededTags \cup ForeignTags

Call(op, arg, ret) == [op |-> op, arg |-> arg, ret |-> ret]

(***************************************************************************)
(* Interface.__init__: available_tags = [TAG(VLAN, 1), ..., TAG(VLAN, 4095)]*)
(***************************************************************************)
\* A plausible slip: range(1, 4095), which leaves the last value out.
init_available_tags_short == [i \in 1..(MaxVlan - 1) |-> TAG(VLAN, i)]

init_available_tags == [i \in 1..MaxVlan |-> TAG(VLAN, i)]

(***************************************************************************)
(* Interface.is_tag_available                                              *)
(***************************************************************************)
is_tag_available(tags, tag) == list_contains(tags, tag)

(***************************************************************************)
(* Interface.use_tag: the list after the call and the value returned.      *)
(***************************************************************************)
\* A plausible slip: the tag is reported as reserved but stays in the pool.
use_tag_tags_keep(tags, tag) == tags

use_tag_tags(tags, tag) ==
    IF \E i \in 1..Len(tags) : TAG_eq(tag, tags[i])
    THEN list_remove(tags, tags[list_index(tags, tag)])
    ELSE tags

\* A plausible slip: success is reported whether or not the tag was found.
use_tag_ret_always(tags, tag) == PyBool(TRUE)

use_tag_ret(tags, tag) ==
    IF \E i \in 1..Len(tags) : TAG_eq(tag, tags[i])
    THEN PyBool(TRUE)
    ELSE PyBool(FALSE)

(***************************************************************************)
(* Interface.get_next_available_tag                                        *)
(***************************************************************************)
\* A plausible slip: pop(0), the oldest entry, instead of pop().
get_next_available_tag_index_first(tags) == 1

\* The index available_tags.pop() takes its entry from.
get_next_available_tag_index(tags) == Len(tags)

\* A plausible slip: the last entry is read (available_tags[-1]) and left in
\* the list, so a tag handed out stays available.
get_next_available_tag_tags_peek(tags) == tags

get_next_available_tag_tags(tags) ==
    IF Len(tags) = 0
    THEN tags
    ELSE list_delete(tags, get_next_available_tag_index(tags))

\* A plausible slip: the IndexError of pop() on an empty list is not caught.
get_next_available_tag_ret_uncaught(tags) ==
    IF Len(tags) = 0
    THEN PyRaise("IndexError")
    ELSE PyTag(tags[get_next_available_tag_index(tags)])

get_next_available_tag_ret(tags) ==
    IF Len(tags) = 0
    THEN PyBool(FALSE)
    ELSE PyTag(tags[get_next_available_tag_index(tags)])

(***************************************************************************)
(* Interface.make_tag_available                                            *)
(***************************************************************************)
\* A plausible slip: the membership check is missing.
make_tag_available_tags_unchecked(tags, tag) == Append(tags, tag)

\* A plausible slip: the released tag is put first (insert(0, tag)), so a
\* release would not decide the next tag popped.
make_tag_available_tags_front(tags, tag) ==
    IF ~is_tag_available(tags, tag) THEN <<tag>> \o tags ELSE tags

make_tag_available_tags(tags, tag) ==
    IF ~is_tag_available(tags, tag) THEN Append(tags, tag) ELSE tags

\* A plausible slip: an explicit "return True" is never written, and the
\* failure branch is given the same implicit None.
make_tag_available_ret_none(tags, tag) == PyNone

make_tag_available_ret(tags, tag) ==
    IF ~is_tag_available(tags, tag) THEN PyNone ELSE PyBool(FALSE)

(***************************************************************************)
(* One call at a time on a fresh Interface.                                *)
(***************************************************************************)
\* The threads calling into one Interface, and a thread that is in no call.
Threads == {"t1", "t2"}
Idle == [pc |-> "idle"]

\* Interface.__init__ with the default arguments features=None, speed=None,
\* bound to a switch that is not connected.
Init ==
    /\ available_tags = init_available_tags
    /\ history = <<>>
    /\ frames = [th \in Threads |-> Idle]
    /\ overlapped = FALSE
    /\ features = PyNone
    /\ _custom_speed = PyNone
    /\ switch = [connected |-> FALSE, version |-> 1]
    /\ last = Call("__init__", PyNone, PyNone)
    /\ last_set = PyNone
    /\ overridden = FALSE
    /\ pools = <<init_available_tags>>
    /\ endpoints = <<>>
    /\ clock = 0

use_tag(tag) ==
    /\ Len(history) < MaxCalls
    /\ available_tags' = use_tag_tags(available_tags, tag)
    /\ history' = Append(history,
                         Call("use_tag", tag, use_tag_ret(available_tags, tag)))
    /\ pools' = Append(pools, available_tags')
    /\ UNCHANGED <<threadvars, speedvars, endpointvars>>

get_next_available_tag ==
    /\ Len(history) < MaxCalls
    /\ available_tags' = get_next_available_tag_tags(available_tags)
    /\ history' = Append(history,
                         Call("get_next_available_tag", PyNone,
                              get_next_available_tag_ret(available_tags)))
    /\ pools' = Append(pools, available_tags')
    /\ UNCHANGED <<threadvars, speedvars, endpointvars>>

make_tag_available(tag) ==
    /\ Len(history) < MaxCalls
    /\ available_tags' = make_tag_available_tags(available_tags, tag)
    /\ history' = Append(history,
                         Call("make_tag_available", tag,
                              make_tag_available_ret(available_tags, tag)))
    /\ pools' = Append(pools, available_tags')
    /\ UNCHANGED <<threadvars, speedvars, endpointvars>>

Next ==
    \/ \E tag \in Tags : use_tag(tag)
    \/ get_next_available_tag
    \/ \E tag \in Tags : make_tag_available(tag)

Spec == Init /\ [][Next]_vars

(***************************************************************************)
(* Two threads calling the pool methods of one Interface.  The class takes *)
(* no lock, so a thread can be preempted between two statements of a       *)
(* method: between the membership check of make_tag_available (line 122)   *)
(* and its append (line 123), between two rounds of the for loop of        *)
(* use_tag (lines 103-104) and before its remove (line 105).  It can also  *)
(* be preempted inside a statement that scans the list, since the scans of *)
(* "tag in self.available_tags" (line 111) and of list.remove (line 105)   *)
(* call TAG.__eq__ for each entry: a scan reads the length of the list and *)
(* one entry in a step, and other threads run before it reads the next.    *)
(* get_next_available_tag is the single step available_tags.pop().         *)
(***************************************************************************)
\* Number of calls started in a run of the two threads.
MaxThreadCalls == 4

InCall == {th \in Threads : frames[th].pc # "idle"}

CanStart(th) ==
    /\ frames[th].pc = "idle"
    /\ Len(history) + Cardinality(InCall) < MaxThreadCalls

\* Thread th runs a statement: calls overlap when another thread is in one.
Ran(th) ==
    /\ overlapped' = (overlapped \/ InCall \ {th} # {})
    /\ pools' = IF Len(history') > Len(history)
                THEN Append(pools, available_tags')
                ELSE pools
    /\ UNCHANGED <<speedvars, endpointvars>>

\* The frame of a thread after another thread deleted entry j of the list
\* (j = 0: none was deleted). A thread inside use_tag's remove keeps in at
\* the place of the very object its loop took from the list: 0 once that
\* object is gone.
Moved(frame, j) ==
    IF j > 0 /\ frame.pc \in {"line105", "line105_eq"}
    THEN [frame EXCEPT !.at = IF @ = j THEN 0 ELSE IF @ > j THEN @ - 1 ELSE @]
    ELSE frame

\* Thread th goes on to frame, having deleted entry j of the list.
Goto(th, frame, j) ==
    frames' = [x \in Threads |-> IF x = th THEN frame ELSE Moved(frames[x], j)]

Return(th, op, arg, ret, j) ==
    /\ history' = Append(history, Call(op, arg, ret))
    /\ Goto(th, Idle, j)

\* A plausible slip: the scan of "tag in self.available_tags" stops at the
\* end of the list without having compared its last entry.
contains_round_end_early(idx) == idx + 1 >= Len(available_tags)

\* is_tag_available, line 111: the scan of "tag in self.available_tags" is
\* over when its position idx (0-based) is no entry of the list as it is now.
contains_round_end(idx) == idx >= Len(available_tags)

\* make_tag_available, line 122, inside is_tag_available, line 111: one
\* comparison of "tag in self.available_tags". The scan reads the length
\* of the list and the entry at idx as they are now and compares them with
\* TAG.__eq__, during which other threads run.
contains_round(th, tag, idx) ==
    IF contains_round_end(idx)
    THEN /\ Goto(th, [pc |-> "line123", tag |-> tag], 0)
         /\ UNCHANGED history
    ELSE IF TAG_eq(available_tags[idx + 1], tag)
    THEN Return(th, "make_tag_available", tag, PyBool(FALSE), 0)
    ELSE /\ Goto(th, [pc |-> "line111", tag |-> tag, idx |-> idx + 1], 0)
         /\ UNCHANGED history

t_make_tag_available_first(th, tag) ==
    /\ CanStart(th)
    /\ contains_round(th, tag, 0)
    /\ UNCHANGED available_tags
    /\ Ran(th)

t_make_tag_available_next(th) ==
    /\ frames[th].pc = "line111"
    /\ contains_round(th, frames[th].tag, frames[th].idx)
    /\ UNCHANGED available_tags
    /\ Ran(th)

\* make_tag_available, line 123: self.available_tags.append(tag)
t_make_tag_available_append(th) ==
    /\ frames[th].pc = "line123"
    /\ available_tags' = Append(available_tags, frames[th].tag)
    /\ Return(th, "make_tag_available", frames[th].tag, PyNone, 0)
    /\ Ran(th)

\* use_tag, lines 103-104: one round of the for loop, the list iterator
\* standing at position idx (0-based) of the list as it is now.
use_tag_round(th, tag, idx) ==
    IF idx >= Len(available_tags)
    THEN Return(th, "use_tag", tag, PyBool(FALSE), 0)
    ELSE /\ UNCHANGED history
         /\ IF TAG_eq(tag, available_tags[idx + 1])
            THEN Goto(th, [pc |-> "line105", tag |-> tag,
                           available_tag |-> available_tags[idx + 1],
                           at |-> idx + 1], 0)
            ELSE Goto(th, [pc |-> "line103", tag |-> tag, idx |-> idx + 1], 0)

t_use_tag_first(th, tag) ==
    /\ CanStart(th)
    /\ use_tag_round(th, tag, 0)
    /\ UNCHANGED available_tags
    /\ Ran(th)

t_use_tag_next(th) ==
    /\ frames[th].pc = "line103"
    /\ use_tag_round(th, frames[th].tag, frames[th].idx)
    /\ UNCHANGED available_tags
    /\ Ran(th)

\* list.remove deletes entries i..i+1 by slice, which deletes nothing when
\* the list has become shorter than i.
remove_delete(th, i) ==
    IF i <= Len(available_tags)
    THEN /\ available_tags' = list_delete(available_tags, i)
         /\ Return(th, "use_tag", frames[th].tag, PyBool(TRUE), i)
    ELSE /\ UNCHANGED available_tags
         /\ Return(th, "use_tag", frames[th].tag, PyBool(TRUE), 0)

\* use_tag, line 105: self.available_tags.remove(available_tag) scanning on
\* from position i (0-based) of the list as it is now. The scan ends with
\* ValueError past the end of the list; it deletes the entry at once when
\* that is the very object available_tag; any other entry is compared with
\* TAG.__eq__, during which other threads run.
remove_round(th, i) ==
    IF i >= Len(available_tags)
    THEN /\ UNCHANGED available_tags
         /\ Return(th, "use_tag", frames[th].tag, PyRaise("ValueError"), 0)
    ELSE IF frames[th].at = i + 1
    THEN remove_delete(th, i + 1)
    ELSE /\ Goto(th, [pc |-> "line105_eq", tag |-> frames[th].tag,
                      available_tag |-> frames[th].available_tag,
                      at |-> frames[th].at, i |-> i,
                      eq |-> TAG_eq(available_tags[i + 1],
                                    frames[th].available_tag)], 0)
         /\ UNCHANGED <<available_tags, history>>

\* use_tag, lines 105-106: remove starts its scan.
t_use_tag_remove(th) ==
    /\ frames[th].pc = "line105"
    /\ remove_round(th, 0)
    /\ Ran(th)

\* use_tag, lines 105-106: TAG.__eq__ has returned to remove, which deletes
\* the entry now at the position it compared, or scans on.
t_use_tag_remove_next(th) ==
    /\ frames[th].pc = "line105_eq"
    /\ IF frames[th].eq
       THEN remove_delete(th, frames[th].i + 1)
       ELSE remove_round(th, frames[th].i + 1)
    /\ Ran(th)

\* get_next_available_tag, lines 115-118
t_get_next_available_tag(th) ==
    /\ CanStart(th)
    /\ available_tags' = get_next_available_tag_tags(available_tags)
    /\ Return(th, "get_next_available_tag", PyNone,
              get_next_available_tag_ret(available_tags),
              Len(available_tags))
    /\ Ran(th)

NextThreads ==
    \/ \E th \in Threads, tag \in Tags : t_make_tag_available_first(th, tag)
    \/ \E th \in Threads : t_make_tag_available_next(th)
    \/ \E th \in Threads : t_make_tag_available_append(th)
    \/ \E th \in Threads, tag \in Tags : t_use_tag_first(th, tag)
    \/ \E th \in Threads : t_use_tag_next(th)
    \/ \E th \in Threads : t_use_tag_remove(th)
    \/ \E th \in Threads : t_use_tag_remove_next(th)
    \/ \E th \in Threads : t_get_next_available_tag(th)

SpecThreads == Init /\ [][NextThreads]_vars

(***************************************************************************)
(* Link speed.  Speeds are numbers of 1000 bytes per second, so that the   *)
(* program's 10**12 / 8 is within the integers of the model: the program's *)
(* 10 * 10**9 / 8 bytes per second is 10 * 10^6 \div 8 here.               *)
(***************************************************************************)
\* Number of low bits of the features bitmask that the model varies.
FeatureBits == 10

PyNum(n) == [type |-> "number", val |-> n]

\* Python truth value of features: None and 0 are false.
truthy(x) == x # PyNone /\ x.val # 0

\* a & b and a | b on non-negative integers.
RECURSIVE BitAnd(_, _)
BitAnd(a, b) ==
    IF a = 0 \/ b = 0 THEN 0
    ELSE (IF a % 2 = 1 /\ b % 2 = 1 THEN 1 ELSE 0) + 2 * BitAnd(a \div 2, b \div 2)

RECURSIVE BitOr(_, _)
BitOr(a, b) ==
    IF a = 0 THEN b
    ELSE IF b = 0 THEN a
    ELSE (IF a % 2 = 1 \/ b % 2 = 1 THEN 1 ELSE 0) + 2 * BitOr(a \div 2, b \div 2)

\* pyof.v0x01.common.phy_port.PortFeatures and, with three more speeds,
\* pyof.v0x04.common.port.PortFeatures (OpenFlow ofp_port_features).
OFPPF_10MB_HD == 1
OFPPF_10MB_FD == 2
OFPPF_100MB_HD == 4
OFPPF_100MB_FD == 8
OFPPF_1GB_HD == 16
OFPPF_1GB_FD == 32
OFPPF_10GB_FD == 64
OFPPF_40GB_FD == 128
OFPPF_100GB_FD == 256
OFPPF_1TB_FD == 512

\* A plausible slip: the two highest tiers are tested in the wrong order.
_get_v0x01_v0x04_speed_1gb_first(fts) ==
    IF truthy(fts) /\ BitAnd(fts.val, BitOr(OFPPF_1GB_HD, OFPPF_1GB_FD)) # 0
    THEN PyNum(10^6 \div 8)
    ELSE IF truthy(fts) /\ BitAnd(fts.val, OFPPF_10GB_FD) # 0
    THEN PyNum((10 * 10^6) \div 8)
    ELSE IF truthy(fts) /\ BitAnd(fts.val, BitOr(OFPPF_100MB_HD, OFPPF_100MB_FD)) # 0
    THEN PyNum((100 * 10^3) \div 8)
    ELSE IF truthy(fts) /\ BitAnd(fts.val, BitOr(OFPPF_10MB_HD, OFPPF_10MB_FD)) # 0
    THEN PyNum((10 * 10^3) \div 8)
    ELSE PyNone

\* Interface._get_v0x01_v0x04_speed
_get_v0x01_v0x04_speed(fts) ==
    IF truthy(fts) /\ BitAnd(fts.val, OFPPF_10GB_FD) # 0
    THEN PyNum((10 * 10^6) \div 8)
    ELSE IF truthy(fts) /\ BitAnd(fts.val, BitOr(OFPPF_1GB_HD, OFPPF_1GB_FD)) # 0
    THEN PyNum(10^6 \div 8)
    ELSE IF truthy(fts) /\ BitAnd(fts.val, BitOr(OFPPF_100MB_HD, OFPPF_100MB_FD)) # 0
    THEN PyNum((100 * 10^3) \div 8)
    ELSE IF truthy(fts) /\ BitAnd(fts.val, BitOr(OFPPF_10MB_HD, OFPPF_10MB_FD)) # 0
    THEN PyNum((10 * 10^3) \div 8)
    ELSE PyNone

\* Interface._get_v0x04_speed
_get_v0x04_speed(fts) ==
    IF truthy(fts) /\ BitAnd(fts.val, OFPPF_1TB_FD) # 0
    THEN PyNum(10^9 \div 8)
    ELSE IF truthy(fts) /\ BitAnd(fts.val, OFPPF_100GB_FD) # 0
    THEN PyNum((100 * 10^6) \div 8)
    ELSE IF truthy(fts) /\ BitAnd(fts.val, OFPPF_40GB_FD) # 0
    THEN PyNum((40 * 10^6) \div 8)
    ELSE PyNone

\* A plausible slip: the version is read without asking whether the switch
\* is connected.
_is_v0x04_version_only(sw) == sw.version = 4

\* Interface._is_v0x04
_is_v0x04(sw) == sw.connected /\ sw.version = 4

\* Interface.get_of_features_speed: the value returned (None after the
\* warning is logged).
get_of_features_speed(fts, sw) ==
    LET speed == _get_v0x01_v0x04_speed(fts)
        speed2 == IF speed = PyNone /\ _is_v0x04(sw)
                  THEN _get_v0x04_speed(fts)
                  ELSE speed
    IN  IF speed2 # PyNone THEN speed2 ELSE PyNone

\* A plausible slip: "if self._custom_speed:", which takes 0 for unset.
speed_if_truthy(custom, fts, sw) ==
    IF truthy(custom) THEN custom ELSE get_of_features_speed(fts, sw)

\* Interface.speed
speed(custom, fts, sw) ==
    IF custom # PyNone THEN custom ELSE get_of_features_speed(fts, sw)

PyStr(str) == [type |-> "str", val |-> str]

\* round(a / d) for d > 0: Python 3 rounds a tie to the even neighbour.
round(a, d) ==
    LET q == a \div d
        r == a % d
    IN  IF 2 * r < d THEN q
        ELSE IF 2 * r > d THEN q + 1
        ELSE IF q % 2 = 0 THEN q ELSE q + 1

\* A plausible slip: "speed > 10**9", which labels 1 Gbps in Mbps.
get_hr_speed_gt(custom, fts, sw) ==
    LET s == speed(custom, fts, sw) IN
    IF s = PyNone THEN PyStr("")
    ELSE LET b == s.val * 8 IN
         IF b = 10^9 THEN PyStr("1 Tbps")
         ELSE IF b > 10^6 THEN PyStr(ToString(round(b, 10^6)) \o " Gbps")
         ELSE PyStr(ToString(round(b, 10^3)) \o " Mbps")

\* Interface.get_hr_speed.  With speeds in 1000 bytes per second, speed * 8
\* counts 1000 bits per second: 10**12 is 10^9 here, 10**9 is 10^6 and
\* 10**6 is 10^3.
get_hr_speed(custom, fts, sw) ==
    LET s == speed(custom, fts, sw) IN
    IF s = PyNone THEN PyStr("")
    ELSE LET b == s.val * 8 IN
         IF b = 10^9 THEN PyStr("1 Tbps")
         ELSE IF b >= 10^6 THEN PyStr(ToString(round(b, 10^6)) \o " Gbps")
         ELSE PyStr(ToString(round(b, 10^3)) \o " Mbps")

\* The inputs: every bitmask over the low FeatureBits bits and None; no custom
\* speed, zero, and speeds that are and are not speeds of the feature tables;
\* a switch that is or is not connected, with OpenFlow 1.0, 1.3 or 1.4.
FeatureValues == {PyNone} \cup {PyNum(n) : n \in 0..(2^FeatureBits - 1)}
CustomSpeeds ==
    {PyNone, PyNum(0), PyNum(10^9 \div 8), PyNum(7),
     PyNum((2 * 10^9) \div 8), PyNum((15 * 10^5) \div 8),
     PyNum((25 * 10^5) \div 8), PyNum(10^6 \div 8 - 1)}
Switches == [connected : BOOLEAN, version : {1, 4, 5}]

\* Interface.__init__ with any features and speed arguments, bound to a
\* switch in any connection state.
InitSpeed ==
    /\ available_tags = init_available_tags
    /\ history = <<>>
    /\ frames = [th \in Threads |-> Idle]
    /\ overlapped = FALSE
    /\ features \in FeatureValues
    /\ _custom_speed \in CustomSpeeds
    /\ switch \in Switches
    /\ last = Call("__init__", PyNone, PyNone)
    /\ last_set = _custom_speed
    /\ overridden = (_custom_speed # PyNone)
    /\ pools = <<init_available_tags>>
    /\ endpoints = <<>>
    /\ clock = 0

\* The speed property is read.
get_speed ==
    /\ last' = Call("speed", PyNone, speed(_custom_speed, features, switch))
    /\ UNCHANGED <<features, _custom_speed, switch, last_set, overridden,
                   poolvars, threadvars, endpointvars>>

call_get_of_features_speed ==
    /\ last' = Call("get_of_features_speed", PyNone,
                    get_of_features_speed(features, switch))
    /\ UNCHANGED <<features, _custom_speed, switch, last_set, overridden,
                   poolvars, threadvars, endpointvars>>

\* A plausible slip: None is taken for "no argument" and changes nothing.
set_custom_speed_assign_unless_none(old, bytes_per_second) ==
    IF bytes_per_second = PyNone THEN old ELSE bytes_per_second

\* set_custom_speed, line 196: the value _custom_speed is given.
set_custom_speed_assign(old, bytes_per_second) == bytes_per_second

set_custom_speed(bytes_per_second) ==
    /\ _custom_speed' = set_custom_speed_assign(_custom_speed, bytes_per_second)
    /\ last' = Call("set_custom_speed", bytes_per_second, PyNone)
    /\ last_set' = bytes_per_second
    /\ overridden' = (overridden \/ bytes_per_second # PyNone)
    /\ UNCHANGED <<features, switch, poolvars, threadvars, endpointvars>>

get_custom_speed ==
    /\ last' = Call("get_custom_speed", PyNone, _custom_speed)
    /\ UNCHANGED <<features, _custom_speed, switch, last_set, overridden,
                   poolvars, threadvars, endpointvars>>

call_get_hr_speed ==
    /\ last' = Call("get_hr_speed", PyNone,
                    get_hr_speed(_custom_speed, features, switch))
    /\ UNCHANGED <<features, _custom_speed, switch, last_set, overridden,
                   poolvars, threadvars, endpointvars>>

NextSpeed ==
    \/ get_speed
    \/ call_get_hr_speed
    \/ call_get_of_features_speed
    \/ \E bytes_per_second \in CustomSpeeds : set_custom_speed(bytes_per_second)
    \/ get_custom_speed

SpecSpeed == InitSpeed /\ [][NextSpeed]_vars

(***************************************************************************)
(* What a caller can tell from the calls alone.                            *)
(***************************************************************************)
IsGet(e) == e.op = "get_next_available_tag"
IsUse(e, t) == e.op = "use_tag" /\ TAG_eq(e.arg, t)
IsRelease(e, t) == e.op = "make_tag_available" /\ TAG_eq(e.arg, t)

\* Call e handed tag t to its caller.
HandOut(e, t) ==
    \/ IsGet(e) /\ e.ret = PyTag(t)
    \/ IsUse(e, t) /\ e.ret = PyBool(TRUE)

\* Tag t is in the pool after the first k calls of h: it was seeded or
\* released, and not handed out since.
RECURSIVE Present(_, _, _)
Present(h, t, k) ==
    IF k = 0 THEN t \in SeededTags
    ELSE IF HandOut(h[k], t) THEN FALSE
    ELSE IF IsRelease(h[k], t) THEN TRUE
    ELSE Present(h, t, k - 1)

\* Call k of h is a release that put its tag into the pool.
Added(h, k) ==
    h[k].op = "make_tag_available" /\ ~Present(h, h[k].arg, k - 1)

\* Call k of h is a release of a tag that was in the pool already.
Refused(h, k) ==
    h[k].op = "make_tag_available" /\ Present(h, h[k].arg, k - 1)

\* The time tag t, present after k calls, was last put into the pool: the
\* number of the release that added it, or for a tag seeded by __init__ and
\* never handed out, its place in the seeding loop counted back from 0.
InsertedAt(h, t, k) ==
    IF \E m \in 1..k : IsRelease(h[m], t) /\ Added(h, m)
    THEN CHOOSE m \in 1..k :
            /\ IsRelease(h[m], t) /\ Added(h, m)
            /\ \A n \in (m + 1)..k : ~(IsRelease(h[n], t) /\ Added(h, n))
    ELSE t.value - MaxVlan - 1

\* The first k calls of h are all get_next_available_tag.
OnlyGets(h, k) == k <= Len(h) /\ \A m \in 1..k : IsGet(h[m])

\* This step is a call of op.
Called(op) ==
    /\ Len(history') = Len(history) + 1
    /\ history'[Len(history')].op = op

LastArg == history'[Len(history')].arg
LastRet == history'[Len(history')].ret

(***************************************************************************)
(* C1. No double allocation: whenever two calls of a serial run hand out   *)
(* the same tag (get_next_available_tag returns it, or use_tag reserves it *)
(* with result True), make_tag_available was called for that tag between   *)
(* the two.                                                                *)
(***************************************************************************)
C1_NoDoubleAllocation ==
    \A t \in Tags : \A i, j \in 1..Len(history) :
        (i < j /\ HandOut(history[i], t) /\ HandOut(history[j], t))
        => \E k \in (i + 1)..(j - 1) : IsRelease(history[k], t)

\* A tag is handed out, released and handed out again, once by each of the
\* two operations that hand out tags.
C1_Witness ==
    \E t \in Tags : \E i, j \in 1..Len(history) :
        /\ i < j
        /\ HandOut(history[i], t) /\ IsGet(history[i])
        /\ HandOut(history[j], t) /\ IsUse(history[j], t)
        /\ \E k \in (i + 1)..(j - 1) : IsRelease(history[k], t)

(***************************************************************************)
(* C2. In every state of a serial run, available_tags holds no two entries *)
(* that are equal under TAG.__eq__ (same tag_type and same value).         *)
(***************************************************************************)
C2_NoEqualEntries ==
    \A i, j \in 1..Len(available_tags) :
        i # j => ~(/\ available_tags[i].tag_type = available_tags[j].tag_type
                   /\ available_tags[i].value = available_tags[j].value)

\* A release of a tag that is in the pool was attempted after a release that
\* added a tag, and the pool holds entries of both tag types.
C2_Witness ==
    /\ \E k \in 1..Len(history) : Refused(history, k)
    /\ \E k \in 1..Len(history) : Added(history, k)
    /\ \E i, j \in 1..Len(available_tags) :
          /\ available_tags[i].tag_type # available_tags[j].tag_type
          /\ available_tags[i].value = available_tags[j].value

(***************************************************************************)
(* C3. get_next_available_tag follows stack discipline: it returns the tag *)
(* that was put into the pool last among those still in it.  On a fresh    *)
(* pool the k-th consecutive call returns the VLAN tag MaxVlan + 1 - k     *)
(* (4096 - k in the program) and leaves MaxVlan - k entries; the call that *)
(* follows a make_tag_available that added tag t returns t.                *)
(***************************************************************************)
C3_Lifo ==
    /\ \A k \in 1..Len(history) :
          (IsGet(history[k]) /\ history[k].ret.type = "TAG")
          => LET t == history[k].ret.val IN
             /\ Present(history, t, k - 1)
             /\ \A u \in Tags :
                   Present(history, u, k - 1)
                   => InsertedAt(history, u, k - 1) <= InsertedAt(history, t, k - 1)
    /\ \A k \in 1..MaxVlan :
          OnlyGets(history, k)
          => /\ history[k].ret = PyTag(TAG(VLAN, MaxVlan + 1 - k))
             /\ (Len(history) = k => Len(available_tags) = MaxVlan - k)
    /\ \A k \in 1..(Len(history) - 1) :
          (Added(history, k) /\ IsGet(history[k + 1]))
          => history[k + 1].ret = PyTag(history[k].arg)

\* The first call took the highest seeded tag; later a release added a tag
\* while older tags were still in the pool, and the next allocation
\* returned the released tag.
C3_Witness ==
    /\ Len(history) >= 3
    /\ OnlyGets(history, 1)
    /\ history[1].ret = PyTag(TAG(VLAN, MaxVlan))
    /\ \E k \in 2..(Len(history) - 1) :
          /\ Added(history, k)
          /\ IsGet(history[k + 1])
          /\ history[k + 1].ret = PyTag(history[k].arg)
          /\ \E u \in SeededTags : Present(history, u, k + 1)

(***************************************************************************)
(* C4. get_next_available_tag on an empty pool (reached by MaxVlan         *)
(* consecutive allocations from a fresh pool) returns a value that is not  *)
(* a tag, raises nothing and leaves the pool empty; a make_tag_available   *)
(* that follows makes the next allocation succeed.                         *)
(***************************************************************************)
C4_ExhaustedStep ==
    (Called("get_next_available_tag") /\ available_tags = <<>>)
    => /\ LastRet.type \notin {"TAG", "raise"}
       /\ available_tags' = <<>>

C4_ExhaustedHistory ==
    /\ (OnlyGets(history, MaxVlan) /\ Len(history) = MaxVlan)
       => available_tags = <<>>
    /\ \A k \in 1..(Len(history) - 2) :
          (/\ IsGet(history[k]) /\ history[k].ret.type # "TAG"
           /\ history[k + 1].op = "make_tag_available"
           /\ IsGet(history[k + 2]))
          => history[k + 2].ret = PyTag(history[k + 1].arg)

C4_PoolExhausted == [][C4_ExhaustedStep]_vars /\ []C4_ExhaustedHistory

\* MaxVlan allocations emptied the pool, the next one failed, a tag was
\* released and the allocation after that returned it.
C4_Witness ==
    /\ Len(history) = MaxVlan + 3
    /\ OnlyGets(history, MaxVlan + 1)
    /\ history[MaxVlan + 1].ret.type = "bool"
    /\ history[MaxVlan + 2].op = "make_tag_available"
    /\ history[MaxVlan + 3].ret = PyTag(history[MaxVlan + 2].arg)
    /\ available_tags = <<>>

(***************************************************************************)
(* C5. use_tag(tag) returns True exactly when an equal tag is in the pool  *)
(* before the call, and then removes that one entry and keeps the others   *)
(* in their order; otherwise it returns False, raises nothing and leaves   *)
(* the pool as it was.                                                     *)
(***************************************************************************)
C5_UseTagStep ==
    Called("use_tag")
    => LET tag == LastArg
           n == Len(available_tags)
           found == \E i \in 1..n :
                        /\ available_tags[i].tag_type = tag.tag_type
                        /\ available_tags[i].value = tag.value
       IN  /\ LastRet = PyBool(found)
           /\ found =>
                \E i \in 1..n :
                    /\ available_tags[i] = tag
                    /\ Len(available_tags') = n - 1
                    /\ \A j \in 1..(i - 1) : available_tags'[j] = available_tags[j]
                    /\ \A j \in i..(n - 1) : available_tags'[j] = available_tags[j + 1]
           /\ ~found => available_tags' = available_tags

C5_UseTag == [][C5_UseTagStep]_vars

\* A tag was reserved out of the middle of a pool of three or more, and a
\* second reservation of the same tag was turned down.
C5_Witness ==
    \E k \in 1..(Len(history) - 1) :
        /\ history[k].op = "use_tag" /\ history[k].ret = PyBool(TRUE)
        /\ history[k + 1].op = "use_tag" /\ history[k + 1].ret = PyBool(FALSE)
        /\ history[k + 1].arg = history[k].arg
        /\ Len(available_tags) >= 2
        /\ \E u, v \in Tags :
              /\ Present(history, u, k) /\ Present(history, v, k)
              /\ InsertedAt(history, u, k) < InsertedAt(history, history[k].arg, k - 1)
              /\ InsertedAt(history, history[k].arg, k - 1) < InsertedAt(history, v, k)

(***************************************************************************)
(* C6. make_tag_available(tag) with an equal tag already in the pool       *)
(* leaves available_tags as it was and returns a value that differs from   *)
(* the value returned by a release that added its tag; with no equal tag   *)
(* in the pool it adds exactly one entry, equal to tag.                    *)
(***************************************************************************)
C6_ReleaseStep ==
    Called("make_tag_available")
    => LET tag == LastArg
           n == Len(available_tags)
           present == \E i \in 1..n :
                        /\ available_tags[i].tag_type = tag.tag_type
                        /\ available_tags[i].value = tag.value
       IN  /\ present => available_tags' = available_tags
           /\ ~present =>
                /\ Len(available_tags') = n + 1
                /\ \E i \in 1..(n + 1) :
                      /\ available_tags'[i] = tag
                      /\ \A j \in 1..(i - 1) : available_tags'[j] = available_tags[j]
                      /\ \A j \in i..n : available_tags'[j + 1] = available_tags[j]

C6_ReleaseResults ==
    \A i, j \in 1..Len(history) :
        (Refused(history, i) /\ Added(history, j))
        => /\ history[i].ret # history[j].ret
           /\ history[i].ret.type # "raise"

C6_ReleaseIdempotent == [][C6_ReleaseStep]_vars /\ []C6_ReleaseResults

\* A tag was reserved, released, and released a second time.
C6_Witness ==
    \E k \in 2..(Len(history) - 1) :
        /\ Added(history, k)
        /\ HandOut(history[k - 1], history[k].arg)
        /\ Refused(history, k + 1)
        /\ history[k + 1].arg = history[k].arg
        /\ Len(available_tags) = MaxVlan

(***************************************************************************)
(* C7. The pool operations are check-then-act sequences: two threads whose *)
(* calls overlap can both pass the membership check of make_tag_available  *)
(* for one absent tag before either appends, which leaves two equal        *)
(* entries in the pool, and the tag is then handed out twice.  As long as  *)
(* no call has overlapped another (the calls are serialized) the pool      *)
(* holds no equal entries and no tag has been handed out twice without a   *)
(* release between.                                                        *)
(***************************************************************************)
C7_SerializedSafe ==
    ~overlapped =>
        /\ \A i, j \in 1..Len(available_tags) :
              i # j => ~TAG_eq(available_tags[i], available_tags[j])
        /\ \A t \in Tags : \A i, j \in 1..Len(history) :
              (i < j /\ HandOut(history[i], t) /\ HandOut(history[j], t))
              => \E k \in (i + 1)..(j - 1) : IsRelease(history[k], t)
        /\ \A k \in 1..Len(history) : history[k].ret.type # "raise"

\* Two overlapping releases of one absent tag both appended it, and two
\* later allocations both returned that tag with no release between them.
C7_Witness ==
    /\ overlapped
    /\ Len(history) >= 4
    /\ \E t \in Tags :
          /\ ~Present(history, t, 0)
          /\ IsRelease(history[1], t) /\ history[1].ret = PyNone
          /\ IsRelease(history[2], t) /\ history[2].ret = PyNone
          /\ HandOut(history[3], t)
          /\ HandOut(history[4], t)

(***************************************************************************)
(* The claims about speed, stated on the bits of the mask one by one.      *)
(***************************************************************************)
\* Bit n of the features bitmask is set (features None has no bit set).
Bit(n) == features # PyNone /\ (features.val \div 2^n) % 2 = 1

TierA == \E n \in 0..6 : Bit(n)
TierB == \E n \in 7..9 : Bit(n)
TierBSpeeds == {PyNum((40 * 10^6) \div 8), PyNum((100 * 10^6) \div 8),
                PyNum(10^9 \div 8)}
V4Connected == switch.connected /\ switch.version = 4
ReadSpeed == last.op \in {"speed", "get_of_features_speed"}

(***************************************************************************)
(* C8. Version gating: with no custom speed and a bitmask in which only    *)
(* 40 Gbps, 100 Gbps or 1 Tbps bits are set, the speed read is None unless *)
(* the switch is connected with version 0x04, and then it is one of those  *)
(* three speeds.                                                           *)
(***************************************************************************)
C8_VersionGating ==
    (ReadSpeed /\ _custom_speed = PyNone /\ TierB /\ ~TierA)
    => IF V4Connected
       THEN last.ret \in TierBSpeeds
       ELSE last.ret = PyNone

\* A mask with only the 1 Tbps bit is read as None on a switch that speaks
\* version 0x04 but is not connected.
C8_Witness ==
    /\ last.op = "speed" /\ _custom_speed = PyNone
    /\ Bit(9) /\ \A n \in 0..8 : ~Bit(n)
    /\ ~switch.connected /\ switch.version = 4
    /\ last.ret = PyNone

(***************************************************************************)
(* C9. Override precedence: a custom speed that is not None, zero          *)
(* included, is what the speed property returns, whatever the features     *)
(* bitmask and the state of the switch.                                    *)
(***************************************************************************)
C9_OverridePrecedence ==
    (last.op = "speed" /\ _custom_speed # PyNone) => last.ret = _custom_speed

\* A custom speed of zero is returned over a 10 Gbps bitmask on a connected
\* version 0x04 switch.
C9_Witness ==
    /\ last.op = "speed" /\ _custom_speed = PyNum(0)
    /\ Bit(6) /\ V4Connected
    /\ last.ret = PyNum(0)

(***************************************************************************)
(* C10. With no custom speed the speed is that of the first match in the   *)
(* order 10 Gbps FD, 1 Gbps, 100 Mbps, 10 Mbps, whatever the state of the  *)
(* switch; only when none of these bits is set and the switch is connected *)
(* with version 0x04 is the order 1 Tbps, 100 Gbps, 40 Gbps applied; a     *)
(* mask that matches nothing gives None.                                   *)
(***************************************************************************)
\* In units of 1000 bytes per second, as every speed of the model.
C10_Expected ==
    IF Bit(6) THEN PyNum(1250000)
    ELSE IF Bit(5) \/ Bit(4) THEN PyNum(125000)
    ELSE IF Bit(3) \/ Bit(2) THEN PyNum(12500)
    ELSE IF Bit(1) \/ Bit(0) THEN PyNum(1250)
    ELSE IF V4Connected /\ Bit(9) THEN PyNum(125000000)
    ELSE IF V4Connected /\ Bit(8) THEN PyNum(12500000)
    ELSE IF V4Connected /\ Bit(7) THEN PyNum(5000000)
    ELSE PyNone

C10_PriorityOrder ==
    (ReadSpeed /\ _custom_speed = PyNone) => last.ret = C10_Expected

\* A mask with the 1 Tbps bit and a 10 Mbps bit is read as 10 Mbps on a
\* connected version 0x04 switch.
C10_Witness ==
    /\ last.op = "speed" /\ _custom_speed = PyNone
    /\ Bit(9) /\ Bit(1) /\ \A n \in 2..6 : ~Bit(n)
    /\ V4Connected
    /\ last.ret = PyNum(1250)

(***************************************************************************)
(* C11. get_hr_speed returns '' exactly when the speed is None; otherwise, *)
(* with b = speed * 8 bits per second, '1 Tbps' when b = 10**12, 'n Gbps'  *)
(* with n the integer nearest to b / 10**9 when b >= 10**9, and 'n Mbps'   *)
(* with n the integer nearest to b / 10**6 otherwise.  The seven speeds of *)
(* the feature tables are labelled '10 Mbps', '100 Mbps', '1 Gbps',        *)
(* '10 Gbps', '40 Gbps', '100 Gbps', '1 Tbps', and a custom speed of 0     *)
(* '0 Mbps'.                                                               *)
(***************************************************************************)
\* The speed the Interface resolves to in this state.
Resolved == IF _custom_speed # PyNone THEN _custom_speed ELSE C10_Expected

\* n is an integer nearest to b / d.
Nearest(n, b, d) == 2 * (b - n * d) <= d /\ 2 * (n * d - b) <= d

\* label is n followed by unit, for an integer n nearest to b / d.
Labelled(label, b, d, unit) ==
    \E n \in (b \div d)..(b \div d + 1) :
        Nearest(n, b, d) /\ label = ToString(n) \o unit

C11_Table ==
    [v \in {1250, 12500, 125000, 1250000, 5000000, 12500000, 125000000} |->
        CASE v = 1250 -> "10 Mbps"
          [] v = 12500 -> "100 Mbps"
          [] v = 125000 -> "1 Gbps"
          [] v = 1250000 -> "10 Gbps"
          [] v = 5000000 -> "40 Gbps"
          [] v = 12500000 -> "100 Gbps"
          [] v = 125000000 -> "1 Tbps"]

C11_HumanReadable ==
    last.op = "get_hr_speed"
    => /\ last.ret.type = "str"
       /\ (last.ret.val = "") <=> (Resolved = PyNone)
       /\ Resolved # PyNone =>
            LET b == Resolved.val * 8 IN
            /\ b = 10^9 => last.ret.val = "1 Tbps"
            /\ (b # 10^9 /\ b >= 10^6) => Labelled(last.ret.val, b, 10^6, " Gbps")
            /\ b < 10^6 => Labelled(last.ret.val, b, 10^3, " Mbps")
            /\ Resolved.val \in DOMAIN C11_Table
               => last.ret.val = C11_Table[Resolved.val]
            /\ Resolved.val = 0 => last.ret.val = "0 Mbps"

\* A new Interface with no custom speed and only the 10 Gbps bit set, on a
\* switch that is not connected, is labelled '10 Gbps'.
C11_Witness ==
    /\ last.op = "get_hr_speed" /\ _custom_speed = PyNone
    /\ Bit(6) /\ \A n \in 0..9 : n # 6 => ~Bit(n)
    /\ ~switch.connected
    /\ last.ret = PyStr("10 Gbps")

(***************************************************************************)
(* C12. The pool of a freshly constructed Interface (no call made yet)     *)
(* holds exactly MaxVlan entries (4095 in the program), all of type VLAN,  *)
(* with the values 1..MaxVlan in ascending order, hence pairwise distinct; *)
(* no tag of another type or value is in it.                               *)
(***************************************************************************)
C12_FreshPool ==
    history = <<>>
    => /\ Len(available_tags) = MaxVlan
       /\ \A i \in 1..Len(available_tags) :
             /\ available_tags[i].tag_type = VLAN
             /\ available_tags[i].value = i
       /\ \A t \in Tags :
             (\E i \in 1..Len(available_tags) : available_tags[i] = t)
             <=> (t.tag_type = VLAN /\ t.value \in 1..MaxVlan)

\* The Interface as __init__ leaves it: the first entry is VLAN 1, the last
\* is VLAN MaxVlan, and the tag of another type is not in the pool.
C12_Witness ==
    /\ history = <<>>
    /\ available_tags[1] = TAG(VLAN, 1)
    /\ available_tags[Len(available_tags)] = TAG(VLAN, MaxVlan)
    /\ \A i \in 1..Len(available_tags) : available_tags[i] # TAG(VLAN_QINQ, 1)

(***************************************************************************)
(* C17. set_custom_speed(None) removes the override: when the speed given  *)
(* last is None the speed property is the speed derived from the features  *)
(* (with its version gating), when it is some x other than None the speed  *)
(* is x, and get_custom_speed returns the speed given last.                *)
(***************************************************************************)
C17_SetCustomSpeed ==
    /\ last.op = "speed" =>
          last.ret = (IF last_set = PyNone THEN C10_Expected ELSE last_set)
    /\ last.op = "get_custom_speed" => last.ret = last_set

\* An override was in force, set_custom_speed(None) removed it, and the
\* speed read afterwards is the 1 Tbps of the features on a connected
\* version 0x04 switch.
C17_Witness ==
    /\ overridden /\ last_set = PyNone
    /\ last.op = "speed"
    /\ Bit(9) /\ ~TierA /\ V4Connected
    /\ last.ret = PyNum(125000000)

(***************************************************************************)
(* C19. Reserve/release round trip. Calls k and k+1 are a successful       *)
(* use_tag(t) and make_tag_available(t); pools[k] is the list before the   *)
(* pair and pools[k + 2] the list after it.                                *)
(***************************************************************************)
RoundTrip(k, t) ==
    /\ k + 1 <= Len(history)
    /\ IsUse(history[k], t) /\ history[k].ret = PyBool(TRUE)
    /\ IsRelease(history[k + 1], t)

\* What get_next_available_tag returns on a list.
Top(tags) == get_next_available_tag_ret(tags)

\* The pair restores the set of available tags: is_tag_available answers
\* the same for every tag.
SameAnswers(before, after) ==
    \A u \in Tags : is_tag_available(before, u) <=> is_tag_available(after, u)

\* The get_next_available_tag that follows the pair, when there is one,
\* returns t.
NextGetReturns(k, t) ==
    (k + 2 <= Len(history) /\ IsGet(history[k + 2]))
        => history[k + 2].ret = PyTag(t)

\* C19 as stated: the set is restored but the order is not, t becomes the
\* last entry, and the next get_next_available_tag returns t rather than
\* the tag it would have returned before the pair.
C19_RoundTripAsStated ==
    \A k \in 1..Len(history) : \A t \in Tags :
        RoundTrip(k, t) =>
            /\ SameAnswers(pools[k], pools[k + 2])
            /\ pools[k + 2] # pools[k]
            /\ pools[k + 2][Len(pools[k + 2])] = t
            /\ NextGetReturns(k, t)
            /\ Top(pools[k]) # PyTag(t)

\* C19 amended: the pair restores the set of available tags and moves t to
\* the end of the list, every other tag keeping its place, so the next
\* get_next_available_tag returns t; the order, and the tag returned next,
\* differ from those before the pair exactly when t was not already the
\* last entry.
C19_RoundTrip ==
    \A k \in 1..Len(history) : \A t \in Tags :
        RoundTrip(k, t) =>
            /\ SameAnswers(pools[k], pools[k + 2])
            /\ pools[k + 2] = Append(list_remove(pools[k], t), t)
            /\ Top(pools[k + 2]) = PyTag(t)
            /\ NextGetReturns(k, t)
            /\ (pools[k + 2] # pools[k]) <=> (Top(pools[k]) # PyTag(t))

\* TAG(VLAN, 1) is reserved and released on the fresh pool, whose last
\* entry is another tag, and the get_next_available_tag that follows
\* returns TAG(VLAN, 1).
C19_Witness ==
    /\ Len(history) >= 3
    /\ RoundTrip(1, TAG(VLAN, 1))
    /\ Top(pools[1]) # PyTag(TAG(VLAN, 1))
    /\ pools[3] # pools[1]
    /\ IsGet(history[3]) /\ history[3].ret = PyTag(TAG(VLAN, 1))

(***************************************************************************)
(* C18. Conservation of tags. The callers hold a tag from the call that    *)
(* handed it out (get_next_available_tag, or a use_tag that returned True) *)
(* until they call make_tag_available with it. If every                    *)
(* make_tag_available was called with a tag held at that moment, the tags  *)
(* in available_tags and the tags held are disjoint and together are       *)
(* exactly the seeded tags, so the pool never has more entries than it was *)
(* seeded with. The pool does not enforce the condition: a                 *)
(* make_tag_available with any tag that is absent, held or not, adds it.   *)
(***************************************************************************)
\* The tags the callers hold after the first k calls.
HeldAt(k) ==
    {t \in Tags : \E j \in 1..k :
        /\ HandOut(history[j], t)
        /\ \A m \in (j + 1)..k : ~IsRelease(history[m], t)}

Held == HeldAt(Len(history))

\* Every make_tag_available was called with a tag held at that moment.
Disciplined ==
    \A k \in 1..Len(history) :
        history[k].op = "make_tag_available" => history[k].arg \in HeldAt(k - 1)

PoolSet == {available_tags[i] : i \in DOMAIN available_tags}

C18_Conservation ==
    /\ Disciplined =>
          /\ PoolSet \cap Held = {}
          /\ PoolSet \cup Held = SeededTags
          /\ Len(available_tags) + Cardinality(Held) = Cardinality(SeededTags)
          /\ Len(available_tags) <= Len(init_available_tags)
    /\ \A k \in 1..Len(history) :
          (history[k].op = "make_tag_available"
              /\ ~is_tag_available(pools[k], history[k].arg))
          => pools[k + 1] = Append(pools[k], history[k].arg)

\* Both ways of being handed a tag and a release of a held tag have
\* happened, and a tag is still held.
C18_Witness ==
    /\ Disciplined
    /\ \E k \in 1..Len(history) : history[k].op = "make_tag_available"
    /\ \E k \in 1..Len(history), t \in Tags :
          IsUse(history[k], t) /\ history[k].ret = PyBool(TRUE)
    /\ \E k \in 1..Len(history) : IsGet(history[k]) /\ history[k].ret # PyBool(FALSE)
    /\ Held # {}
    /\ Len(available_tags) < Len(init_available_tags)

(***************************************************************************)
(* Interface.__eq__                                                        *)
(***************************************************************************)
\* A Python float, in tenths.
PyFloat(tenths) == [type |-> "float", tenths |-> tenths]

\* int(x) for the port numbers given: a bool is 0 or 1, a float loses its
\* fraction, a string is read as a decimal literal, an int is itself.
int(x) ==
    IF x.type = "bool" THEN (IF x.val THEN 1 ELSE 0)
    ELSE IF x.type = "float"
    THEN (IF x.tenths >= 0 THEN x.tenths \div 10 ELSE -((-x.tenths) \div 10))
    ELSE IF x.type = "str"
    THEN (("1" :> 1) @@ ("2" :> 2) @@ ("02" :> 2) @@ (" 1 " :> 1))[x.val]
    ELSE x.val

\* Interface.__init__: the attributes __eq__ reads and, of the others,
\* _custom_speed and nni. obj tells one object from another and given is
\* the port_number argument as it was passed; neither is an attribute.
Interface(obj, name, port_number, sw, address, custom) ==
    [type |-> "Interface", obj |-> obj, given |-> port_number,
     name |-> name, port_number |-> int(port_number), switch |-> sw,
     address |-> address, nni |-> FALSE, _custom_speed |-> custom]

\* A plausible slip: the owning switch is left out of the comparison, so
\* equally named ports of two switches would be equal.
Interface_eq_without_switch(self, other) ==
    IF other.type = "str"
    THEN self.address = other
    ELSE IF other.type = "Interface"
    THEN /\ self.port_number = other.port_number
         /\ self.name = other.name
         /\ self.address = other.address
    ELSE FALSE

\* Interface.__eq__(self, other)
Interface_eq(self, other) ==
    IF other.type = "str"
    THEN self.address = other
    ELSE IF other.type = "Interface"
    THEN /\ self.port_number = other.port_number
         /\ self.name = other.name
         /\ self.address = other.address
         /\ self.switch.dpid = other.switch.dpid
    ELSE FALSE

\* The Interfaces and the other values compared.
Addresses == {PyStr("00:00:00:00:00:01"), PyStr("00:00:00:00:00:02")}
PortNumbers == {PyNum(1), PyNum(2), PyStr("1"), PyBool(TRUE), PyFloat(19)}
InterfacesOf(obj, custom) ==
    {Interface(obj, name, port_number, [dpid |-> dpid], address, custom) :
        name \in {PyStr("eth0"), PyStr("eth1")},
        port_number \in PortNumbers,
        dpid \in {PyStr("dpid1"), PyStr("dpid2")},
        address \in {PyStr("00:00:00:00:00:01"), PyNone}}
\* The Interfaces on the left of ==, and the values on its right: the
\* Interfaces that are other objects with another speed, and values that
\* are no Interface.
Interfaces == InterfacesOf("i1", PyNone)
Values ==
    InterfacesOf("i2", PyNum(7)) \cup Addresses
        \cup {PyStr("eth0"), PyNone, PyNum(1), PyBool(TRUE), PyTag(TAG(VLAN, 1))}

\* self == other is evaluated for an Interface self.
call_eq(self, other) ==
    /\ last' = Call("__eq__", [self |-> self, other |-> other],
                    PyBool(Interface_eq(self, other)))
    /\ UNCHANGED <<features, _custom_speed, switch, last_set, overridden,
                   poolvars, threadvars, endpointvars>>

NextEq ==
    \E self \in Interfaces :
        \E other \in Values \cup {self} : call_eq(self, other)

SpecEq == Init /\ [][NextEq]_vars

(***************************************************************************)
(* C16. An Interface equals a string iff its address equals that string;   *)
(* it equals another Interface iff port_number, name, address and the      *)
(* dpid of the owning switch are all equal, whichever objects the two are  *)
(* and whatever their other attributes; it is unequal to a value of any    *)
(* other type.                                                             *)
(***************************************************************************)
SameKey(a, b) ==
    /\ a.port_number = b.port_number
    /\ a.name = b.name
    /\ a.address = b.address
    /\ a.switch.dpid = b.switch.dpid

C16_InterfaceEquality ==
    last.op = "__eq__" =>
        LET a == last.arg.self
            b == last.arg.other
            equal == (last.ret = PyBool(TRUE))
        IN  /\ last.ret \in {PyBool(TRUE), PyBool(FALSE)}
            /\ b.type = "str" => (equal <=> a.address = b)
            /\ b.type = "Interface" => (equal <=> SameKey(a, b))
            /\ b.type \notin {"str", "Interface"} => ~equal

\* Two different objects with different speeds, given their port number as
\* 1 and as "1", that agree on name, address and switch were found equal.
C16_Witness ==
    /\ last.op = "__eq__"
    /\ last.arg.other.type = "Interface"
    /\ last.arg.self.obj # last.arg.other.obj
    /\ last.arg.self._custom_speed # last.arg.other._custom_speed
    /\ last.arg.self.given = PyNum(1) /\ last.arg.other.given = PyStr("1")
    /\ SameKey(last.arg.self, last.arg.other)
    /\ last.ret = PyBool(TRUE)

(***************************************************************************)
(* Interface.endpoints                                                     *)
(***************************************************************************)
\* The latest time now() returns in a run.
MaxClock == 2

\* x == y as Python evaluates it for the values kept as endpoints: an
\* Interface on the left answers with its __eq__; a string on the left of
\* an Interface has no answer of its own (NotImplemented), so the
\* Interface's __eq__ is asked with the operands swapped; strings compare
\* by value.
py_eq(x, y) ==
    IF x.type = "Interface" THEN Interface_eq(x, y)
    ELSE IF y.type = "Interface" THEN Interface_eq(y, x)
    ELSE x = y

\* The tuple (endpoint, now()) kept in Interface.endpoints.
item(endpoint, time) == [endpoint |-> endpoint, time |-> time]

\* tuple == tuple: element by element.
item_eq(a, b) == py_eq(a.endpoint, b.endpoint) /\ a.time = b.time

\* Interface.get_endpoint: the first item whose endpoint equals the one
\* asked for, None when there is none.
get_endpoint(eps, endpoint) ==
    IF \E i \in 1..Len(eps) : py_eq(endpoint, eps[i].endpoint)
    THEN eps[CHOOSE i \in 1..Len(eps) :
                /\ py_eq(endpoint, eps[i].endpoint)
                /\ \A j \in 1..(i - 1) : ~py_eq(endpoint, eps[j].endpoint)]
    ELSE PyNone

\* self.endpoints.remove(exists): deletes the first item equal to exists.
endpoints_remove(eps, exists) ==
    list_delete(eps, CHOOSE i \in 1..Len(eps) :
                        /\ item_eq(eps[i], exists)
                        /\ \A j \in 1..(i - 1) : ~item_eq(eps[j], exists))

\* A plausible slip: the endpoint is appended without looking for it.
add_endpoint_endpoints_unchecked(eps, endpoint, time) ==
    Append(eps, item(endpoint, time))

\* A plausible slip: an endpoint that exists has its time refreshed.
add_endpoint_endpoints_refresh(eps, endpoint, time) ==
    IF get_endpoint(eps, endpoint) = PyNone
    THEN Append(eps, item(endpoint, time))
    ELSE [i \in 1..Len(eps) |->
            IF py_eq(endpoint, eps[i].endpoint)
            THEN item(eps[i].endpoint, time) ELSE eps[i]]

\* Interface.add_endpoint: self.endpoints after the call made at time.
add_endpoint_endpoints(eps, endpoint, time) ==
    LET exists == get_endpoint(eps, endpoint)
    IN  IF exists = PyNone THEN Append(eps, item(endpoint, time)) ELSE eps

\* Interface.delete_endpoint: self.endpoints after the call.
delete_endpoint_endpoints(eps, endpoint) ==
    LET exists == get_endpoint(eps, endpoint)
    IN  IF exists # PyNone THEN endpoints_remove(eps, exists) ELSE eps

\* Interface.update_endpoint: self.endpoints after the call made at time.
update_endpoint_endpoints(eps, endpoint, time) ==
    LET exists == get_endpoint(eps, endpoint)
    IN  add_endpoint_endpoints(
            IF exists # PyNone THEN delete_endpoint_endpoints(eps, endpoint)
                               ELSE eps,
            endpoint, time)

\* The endpoints the callers pass: two addresses, and two Interfaces of one
\* switch that have the first address and different ports.
InterfaceA ==
    Interface("i1", PyStr("eth0"), PyNum(1), [dpid |-> PyStr("dpid1")],
              PyStr("00:00:00:00:00:01"), PyNone)
InterfaceB ==
    Interface("i2", PyStr("eth1"), PyStr("2"), [dpid |-> PyStr("dpid1")],
              PyStr("00:00:00:00:00:01"), PyNone)
Endpoints == Addresses \cup {InterfaceA, InterfaceB}

\* A call on the endpoints: the list it found and the time now() gave it.
EndpointCall(op, endpoint, ret, before, time) ==
    [op |-> op, arg |-> endpoint, ret |-> ret, before |-> before, now |-> time]

\* Time passes between calls.
tick ==
    /\ clock < MaxClock
    /\ clock' = clock + 1
    /\ UNCHANGED <<endpoints, speedvars, poolvars, threadvars>>

add_endpoint(endpoint) ==
    /\ endpoints' = add_endpoint_endpoints(endpoints, endpoint, clock)
    /\ last' = EndpointCall("add_endpoint", endpoint, PyNone, endpoints, clock)
    /\ UNCHANGED <<clock, features, _custom_speed, switch, last_set,
                   overridden, poolvars, threadvars>>

delete_endpoint(endpoint) ==
    /\ endpoints' = delete_endpoint_endpoints(endpoints, endpoint)
    /\ last' = EndpointCall("delete_endpoint", endpoint, PyNone, endpoints, clock)
    /\ UNCHANGED <<clock, features, _custom_speed, switch, last_set,
                   overridden, poolvars, threadvars>>

update_endpoint(endpoint) ==
    /\ endpoints' = update_endpoint_endpoints(endpoints, endpoint, clock)
    /\ last' = EndpointCall("update_endpoint", endpoint, PyNone, endpoints, clock)
    /\ UNCHANGED <<clock, features, _custom_speed, switch, last_set,
                   overridden, poolvars, threadvars>>

call_get_endpoint(endpoint) ==
    /\ last' = EndpointCall("get_endpoint", endpoint,
                            get_endpoint(endpoints, endpoint), endpoints, clock)
    /\ UNCHANGED <<endpoints, clock, features, _custom_speed, switch, last_set,
                   overridden, poolvars, threadvars>>

NextEndpoints ==
    \/ tick
    \/ \E endpoint \in Endpoints :
          \/ add_endpoint(endpoint)
          \/ delete_endpoint(endpoint)
          \/ update_endpoint(endpoint)
          \/ call_get_endpoint(endpoint)

SpecEndpoints == Init /\ [][NextEndpoints]_vars

(***************************************************************************)
(* Claims about the endpoints. last is the latest call made on them,       *)
(* last.before the list it found and last.now the time it was made at.     *)
(***************************************************************************)
\* The places of eps that hold an entry for endpoint e.
EntriesFor(eps, e) == {i \in 1..Len(eps) : py_eq(e, eps[i].endpoint)}

\* after is before with at most one entry deleted and then at most one
\* entry, made at time for endpoint e, appended.
DeleteThenAppend(before, after, e, time) ==
    \E kept \in {before} \cup {list_delete(before, i) : i \in 1..Len(before)} :
        \/ after = kept
        \/ after = Append(kept, item(e, time))

(***************************************************************************)
(* C13. Whatever add_endpoint, delete_endpoint and update_endpoint calls   *)
(* were made on the empty list, no two entries of endpoints are for equal  *)
(* endpoints, and the entries are in the order they were inserted last:    *)
(* their times never decrease along the list, and a call only deletes an   *)
(* entry and appends the new one at the end.                               *)
(***************************************************************************)
C13_OneEntryInOrder ==
    /\ \A i, j \in 1..Len(endpoints) :
          i # j => /\ ~py_eq(endpoints[i].endpoint, endpoints[j].endpoint)
                   /\ ~py_eq(endpoints[j].endpoint, endpoints[i].endpoint)
    /\ \A i, j \in 1..Len(endpoints) :
          i < j => endpoints[i].time <= endpoints[j].time
    /\ last.op \in {"add_endpoint", "delete_endpoint", "update_endpoint"}
          => DeleteThenAppend(last.before, endpoints, last.arg, last.now)

\* Three endpoints inserted at three times; the one inserted first was
\* updated last and is the last entry.
C13_Witness ==
    /\ Len(endpoints) = 3
    /\ endpoints[1].time < endpoints[2].time
    /\ endpoints[2].time < endpoints[3].time
    /\ last.op = "update_endpoint"
    /\ Len(last.before) = 3
    /\ last.before[1].endpoint = last.arg
    /\ endpoints[3] = item(last.arg, last.now)

(***************************************************************************)
(* C14. add_endpoint(e) when an entry for e exists, and delete_endpoint(e) *)
(* when none exists, leave endpoints as it was: every entry keeps its      *)
(* time and place and none is added.                                       *)
(***************************************************************************)
C14_NoOp ==
    /\ (last.op = "add_endpoint" /\ EntriesFor(last.before, last.arg) # {})
          => endpoints = last.before
    /\ (last.op = "delete_endpoint" /\ EntriesFor(last.before, last.arg) = {})
          => endpoints = last.before

\* add_endpoint was called, later than the entry was made, with an endpoint
\* that has an entry which is not the last one.
C14_Witness ==
    /\ last.op = "add_endpoint"
    /\ \E i \in EntriesFor(last.before, last.arg) :
          /\ i < Len(last.before)
          /\ last.before[i].time < last.now
    /\ endpoints = last.before

(***************************************************************************)
(* C15. update_endpoint(e) always refreshes: after the call endpoints has  *)
(* exactly one entry for e, that entry carries the time of the call and is *)
(* the last entry, whether or not e had an entry before; every other entry *)
(* keeps its time and its place relative to the others.                    *)
(***************************************************************************)
C15_UpdateRefreshes ==
    last.op = "update_endpoint" =>
        /\ Cardinality(EntriesFor(endpoints, last.arg)) = 1
        /\ EntriesFor(endpoints, last.arg) = {Len(endpoints)}
        /\ endpoints[Len(endpoints)].time = last.now
        /\ SubSeq(endpoints, 1, Len(endpoints) - 1)
              = SelectSeq(last.before, LAMBDA it : ~py_eq(last.arg, it.endpoint))

====
